---- MODULE Spec2Model ----
(***************************************************************************)
(* Discrete-time SEAIHRD epidemic model of run_SEIHRD_model.py: the        *)
(* Markov step, the solver loop with its freeze at the intervention day,   *)
(* the MAE helper and the grid search for the latent fraction r.           *)
(*                                                                         *)
(* Numbers.  The program computes in float64.  The model computes in exact *)
(* rationals [n |-> numerator, d |-> denominator], reduced, d > 0; the     *)
(* value [n |-> 0, d |-> 0] stands for numpy's nan.  The power operator ** *)
(* is exact for integer exponents; a fractional exponent is taken at the   *)
(* next integer (see Pow).                                                 *)
(***************************************************************************)
EXTENDS Integers, Sequences, FiniteSets, TLC

VARIABLES params, x0, n_steps, pc, t, xt, sol, S_tc, CH_tc, calls, nfreeze,
          mx, my, mres,
          r_range, data, regions, mae_range, cvi, evals, r, cpc

solveVars == <<params, x0, n_steps, pc, t, xt, sol, S_tc, CH_tc, calls, nfreeze>>
maeVars   == <<mx, my, mres>>
calVars   == <<r_range, data, regions, mae_range, cvi, evals, r, cpc>>
vars      == <<solveVars, maeVars, calVars>>

-----------------------------------------------------------------------------
(* Rational arithmetic standing for the float operators + - * and the      *)
(* comparisons of the program.                                             *)

Abs(a) == IF a < 0 THEN -a ELSE a

RECURSIVE GCD(_, _)
GCD(a, b) == IF b = 0 THEN a ELSE GCD(b, a % b)

NaN == [n |-> 0, d |-> 0]
IsNaN(a) == a.d = 0

Norm(n, d) ==
    LET g == GCD(Abs(n), Abs(d))
        s == IF d < 0 THEN -1 ELSE 1
    IN  [n |-> s * (n \div g), d |-> s * (d \div g)]

Q(n, d) == Norm(n, d)
Zero == [n |-> 0, d |-> 1]
One  == [n |-> 1, d |-> 1]

RAdd(a, b) ==
    IF IsNaN(a) \/ IsNaN(b) THEN NaN
    ELSE LET g == GCD(a.d, b.d)
         IN  Norm(a.n * (b.d \div g) + b.n * (a.d \div g), (a.d \div g) * b.d)

RNeg(a) == [n |-> -a.n, d |-> a.d]
RSub(a, b) == RAdd(a, RNeg(b))

RMul(a, b) ==
    IF IsNaN(a) \/ IsNaN(b) THEN NaN
    ELSE LET g1 == GCD(Abs(a.n), b.d)
             g2 == GCD(Abs(b.n), a.d)
         IN  IF a.n = 0 \/ b.n = 0 THEN Zero
             ELSE [n |-> (a.n \div g1) * (b.n \div g2),
                   d |-> (a.d \div g2) * (b.d \div g1)]

RInv(a) == IF a.n < 0 THEN [n |-> -a.d, d |-> -a.n] ELSE [n |-> a.d, d |-> a.n]
RDiv(a, b) == IF IsNaN(b) \/ b.n = 0 THEN NaN ELSE RMul(a, RInv(b))

RLeq(a, b) == ~IsNaN(a) /\ ~IsNaN(b) /\ RSub(b, a).n >= 0
RLt(a, b)  == ~IsNaN(a) /\ ~IsNaN(b) /\ RSub(b, a).n > 0
REq(a, b)  == ~IsNaN(a) /\ ~IsNaN(b) /\ a = b
RAbs(a) == [n |-> Abs(a.n), d |-> a.d]

FromInt(k) == [n |-> k, d |-> 1]

RECURSIVE IntPow(_, _)
IntPow(b, k) == IF k = 0 THEN One ELSE RMul(b, IntPow(b, k - 1))

Ceil(a) == -((-a.n) \div a.d)

(* b ** e on the integer grid of exponents: exact when e is an integer     *)
(* (0 ** 0 = 1 as in Python), and for a fractional e the value at the next *)
(* integer above e, so that b ** e stays in [0,1] and non-increasing in e  *)
(* for a base in [0,1].  A negative base with a fractional exponent is     *)
(* nan, as in numpy; so is 0 to a negative power (numpy: inf).             *)
Pow(b, e) ==
    IF IsNaN(b) \/ IsNaN(e) THEN NaN
    ELSE LET c == Ceil(e)
         IN  IF b.n < 0 /\ e.d # 1 THEN NaN
             ELSE IF b.n = 0 /\ c < 0 THEN NaN
             ELSE IF c >= 0 THEN IntPow(b, c)
             ELSE IntPow(RInv(b), -c)

-----------------------------------------------------------------------------
(* Bounds of the model.                                                    *)

MaxSteps == 4     \* longest horizon n_steps handed to solve
MaxLen == 3       \* longest sequence handed to MAE, longest observed series
MaxCand == 3      \* longest candidate list r_range

(* tc = np.inf, "no confinement is made": a day later than every horizon.  *)
Never == 1000000

-----------------------------------------------------------------------------
(* Model helper functions.                                                 *)

\* mutant: the heaviside function with value 0 at t = tc
Theta_strict(tt, tc) == IF tt - tc <= 0 THEN Zero ELSE One

\* heaviside function, np.heaviside(t - tc, 1): 1 at t = tc
Theta(tt, tc) == IF tt - tc < 0 THEN Zero ELSE One

\* kronecker delta
delta(tt, tc) == IF tt = tc THEN One ELSE Zero

\* mutant: the baseline term of the contact rate drops without kappa0
k_unscaled(tt, k_avg, kappa0, sigma, tc) ==
    RAdd(RMul(RSub(One, Theta(tt, tc)), k_avg),
         RMul(RMul(kappa0, RSub(sigma, One)), Theta(tt, tc)))

\* mutant: the reduced contact rate applies on every day, without the step
k_always(tt, k_avg, kappa0, sigma, tc) ==
    RAdd(RMul(RSub(One, kappa0), k_avg), RMul(kappa0, RSub(sigma, One)))

\* number of contacts
k(tt, k_avg, kappa0, sigma, tc) ==
    RAdd(RMul(RSub(One, RMul(kappa0, Theta(tt, tc))), k_avg),
         RMul(RMul(kappa0, RSub(sigma, One)), Theta(tt, tc)))

\* probability of getting infected
P(I, A, tt, beta, k_avg, kappa0, sigma, tc) ==
    RSub(One, Pow(RSub(One, beta), RMul(k(tt, k_avg, kappa0, sigma, tc), RAdd(I, A))))

\* mutant: CH is injected on the day tc only
StepCH_delta(tt, s_tc, ch_tc, p) ==
    RMul(RMul(RMul(s_tc, p.kappa0), ch_tc), delta(tt, p.tc))

\* the CH(t+1) row of the step
StepCH(tt, s_tc, ch_tc, p) ==
    RMul(RMul(RMul(s_tc, p.kappa0), ch_tc), Theta(tt, p.tc))

\* the confinement factor (1 - delta(t,tc)*kappa0*CH_tc) of the S and E rows
Confine(tt, ch_tc, p) ==
    RSub(One, RMul(RMul(delta(tt, p.tc), p.kappa0), ch_tc))

\* mutant: R is not carried over
StepR_flow(x, p) == RAdd(RMul(p.gammaI, x.I), RMul(p.gammaH, x.H))

\* the R(t+1) row of the step
StepR(x, p) == RAdd(RAdd(RMul(p.gammaI, x.I), RMul(p.gammaH, x.H)), x.R)

\* one time step of the SEAIHRD model
SEAIHRD_markov_step(x, tt, s_tc, ch_tc, p) ==
    LET Pt == P(x.I, x.A, tt, p.beta, p.k_avg, p.kappa0, p.sigma, p.tc)
    IN  [S  |-> RMul(RMul(x.S, RSub(One, Pt)), Confine(tt, ch_tc, p)),
         E  |-> RAdd(RMul(RMul(x.S, Pt), Confine(tt, ch_tc, p)),
                     RMul(RSub(One, p.eta), x.E)),
         CH |-> StepCH(tt, s_tc, ch_tc, p),
         A  |-> RAdd(RMul(p.eta, x.E), RMul(RSub(One, p.alpha), x.A)),
         I  |-> RAdd(RMul(p.alpha, x.A),
                     RMul(RSub(One, RAdd(RAdd(p.gammaI, p.muI), p.nu)), x.I)),
         H  |-> RAdd(RMul(p.nu, x.I),
                     RMul(RSub(One, RAdd(p.gammaH, p.muH)), x.H)),
         R  |-> StepR(x, p),
         D  |-> RAdd(RAdd(RMul(p.muI, x.I), RMul(p.muH, x.H)), x.D)]

\* initial conditions of one state of the country, as the callers build x0
InitialConditions(reg, rr) ==
    LET N  == FromInt(reg.N)
        pp == Q(1, 2)
        R0 == RDiv(FromInt(reg.recovered), N)
        D0 == RDiv(FromInt(reg.deaths), N)
        I0 == RSub(RSub(RDiv(FromInt(reg.confirmed), N), R0), D0)
        E0 == RMul(RMul(pp, rr), I0)
        A0 == RMul(RMul(RSub(One, pp), rr), I0)
        H0 == Zero
        CH0 == Zero
        S0 == RSub(RSub(RSub(RSub(RSub(RSub(One, E0), A0), I0), R0), D0), H0)
    IN  [S |-> S0, E |-> E0, CH |-> CH0, A |-> A0, I |-> I0, H |-> H0, R |-> R0, D |-> D0]

-----------------------------------------------------------------------------
(* Inputs of solve.                                                        *)

\* (gammaI, muI, nu) and (gammaH, muH): outflow rates of I and of H
InfectedRates == {<<Q(1, 2), Zero, Q(1, 4)>>, <<Q(1, 4), Q(1, 4), Q(1, 2)>>,
                  <<Q(1, 2), Q(1, 2), Q(1, 2)>>, <<Q(3, 2), Zero, Zero>>}
HospitalRates == {<<Q(1, 2), Q(1, 4)>>, <<One, Q(1, 2)>>}

OutflowRates ==
    { <<ir, hr>> \in InfectedRates \X HospitalRates :
        \/ ir[1] = Q(1, 2) /\ ir[2] = Zero
        \/ hr = <<Q(1, 2), Q(1, 4)>> }

ParamBundles ==
    { [beta |-> b, k_avg |-> ka, eta |-> Q(1, 2), alpha |-> Q(1, 2),
       gammaI |-> o[1][1], muI |-> o[1][2], nu |-> o[1][3],
       gammaH |-> o[2][1], muH |-> o[2][2],
       kappa0 |-> k0, sigma |-> sg, tc |-> c] :
        b \in {Zero, Q(1, 2), One}, ka \in {One, FromInt(2)}, o \in OutflowRates,
        k0 \in {Zero, Q(1, 2), One}, sg \in {One, Q(3, 2), FromInt(2)},
        c \in (-1 .. MaxSteps) \cup {Never} }

\* one state of the country: population and the case counts of the first day
RegionData ==
    { [N |-> 4, confirmed |-> 2, deaths |-> 0, recovered |-> 1],
      [N |-> 4, confirmed |-> 1, deaths |-> 0, recovered |-> 0],
      [N |-> 2, confirmed |-> 1, deaths |-> 0, recovered |-> 0] }

InRange(a) == RLeq(Zero, a) /\ RLeq(a, One)

-----------------------------------------------------------------------------
(* Solver.                                                                 *)

\* mutant: the freeze test holds on every day from tc on
IsFreezeDay_from(tt, tc) == tt >= tc

\* the test of the loop that freezes S_tc and CH_tc
IsFreezeDay(tt, tc) == tt = tc

\* mutant: the pair is captured on every day not before tc
Freeze_late(tt, x, s_tc, ch_tc, p) ==
    IF tt >= p.tc /\ s_tc = Zero
    THEN <<x.S, Pow(RAdd(x.S, x.R), p.sigma)>>
    ELSE <<s_tc, ch_tc>>

\* the frozen pair after the test of one iteration
Freeze(tt, x, s_tc, ch_tc, p) ==
    IF IsFreezeDay(tt, p.tc)
    THEN <<x.S, Pow(RAdd(x.S, x.R), p.sigma)>>
    ELSE <<s_tc, ch_tc>>

\* mutant: the row is written after the step
Recorded_after(xcur, xnext) == xnext

\* the row written into sol by one iteration that starts in xcur
Recorded(xcur, xnext) == xcur

IdleMAE == mx = <<>> /\ my = <<>> /\ mres = [raised |-> "none"]
IdleCal == /\ r_range = <<>> /\ data = <<>> /\ regions = <<>> /\ mae_range = <<>>
           /\ cvi = 0 /\ evals = <<>> /\ r = "none" /\ cpc = "idle"
IdleSolve == /\ params = "none" /\ x0 = "none" /\ n_steps = 0 /\ pc = "idle" /\ t = 0
             /\ xt = "none" /\ sol = <<>> /\ S_tc = Zero /\ CH_tc = Zero
             /\ calls = <<>> /\ nfreeze = 0

Init ==
    /\ params \in ParamBundles
    /\ \E reg \in RegionData : x0 = InitialConditions(reg, One)
    /\ n_steps \in 1 .. MaxSteps
    /\ pc = "loop"
    /\ t = 0
    /\ xt = x0
    /\ sol = <<>>
    /\ S_tc = Zero
    /\ CH_tc = Zero
    /\ calls = <<>>
    /\ nfreeze = 0
    /\ IdleMAE
    /\ IdleCal

\* one iteration of the for loop of solve
SolveIter ==
    /\ pc = "loop"
    /\ t < n_steps
    /\ LET fr   == Freeze(t, xt, S_tc, CH_tc, params)
           next == SEAIHRD_markov_step(xt, t, fr[1], fr[2], params)
       IN  /\ S_tc' = fr[1]
           /\ CH_tc' = fr[2]
           /\ nfreeze' = nfreeze + (IF IsFreezeDay(t, params.tc) THEN 1 ELSE 0)
           /\ sol' = Append(sol, Recorded(xt, next))
           /\ calls' = Append(calls, [t |-> t, S_tc |-> fr[1], CH_tc |-> fr[2]])
           /\ xt' = next
    /\ t' = t + 1
    /\ UNCHANGED <<params, x0, n_steps, pc, maeVars, calVars>>

\* the loop is exhausted: return sol
SolveReturn ==
    /\ pc = "loop"
    /\ t = n_steps
    /\ pc' = "done"
    /\ UNCHANGED <<params, x0, n_steps, t, xt, sol, S_tc, CH_tc, calls, nfreeze,
                   maeVars, calVars>>

Next == SolveIter \/ SolveReturn

Spec == Init /\ [][Next]_vars

-----------------------------------------------------------------------------
(* The solver as a function, for the callers that need a whole trajectory. *)

RECURSIVE SolveLoop(_, _, _, _)
SolveLoop(st, tt, n, p) ==
    IF tt = n THEN st.sol
    ELSE LET fr   == Freeze(tt, st.xt, st.S_tc, st.CH_tc, p)
             next == SEAIHRD_markov_step(st.xt, tt, fr[1], fr[2], p)
         IN  SolveLoop([xt |-> next, sol |-> Append(st.sol, Recorded(st.xt, next)),
                        S_tc |-> fr[1], CH_tc |-> fr[2]], tt + 1, n, p)

solve(x, n, p) == SolveLoop([xt |-> x, sol |-> <<>>, S_tc |-> Zero, CH_tc |-> Zero], 0, n, p)

-----------------------------------------------------------------------------
(* Mean absolute error and the aggregation helpers.                        *)

MinInt(a, b) == IF a < b THEN a ELSE b

RECURSIVE SumSeq(_)
SumSeq(sq) == IF sq = <<>> THEN Zero ELSE RAdd(Head(sq), SumSeq(Tail(sq)))

\* np.mean: nan for an empty array
Mean(sq) == IF sq = <<>> THEN NaN ELSE RDiv(SumSeq(sq), FromInt(Len(sq)))

(* x - y of two one-dimensional arrays under numpy's broadcasting: equal   *)
(* lengths elementwise, a length of 1 stretched over the other array, any  *)
(* other pair of lengths a ValueError.                                     *)
ValueError == [raised |-> "ValueError"]
NoResult == [raised |-> "none"]
Broadcastable(a, b) == Len(a) = Len(b) \/ Len(a) = 1 \/ Len(b) = 1
ArraySub(a, b) ==
    LET n == IF Len(a) = 1 THEN Len(b) ELSE IF Len(b) = 1 THEN Len(a) ELSE Len(a)
    IN  [i \in 1 .. n |-> RSub(IF Len(a) = 1 THEN a[1] ELSE a[i],
                               IF Len(b) = 1 THEN b[1] ELSE b[i])]

\* mean absolute error: np.mean(np.abs( x[:] - y[:len(x)] ))
MAE(x, y) ==
    LET ys == SubSeq(y, 1, MinInt(Len(x), Len(y)))
    IN  IF ~Broadcastable(x, ys) THEN ValueError
        ELSE LET df == ArraySub(x, ys)
             IN  Mean([i \in 1 .. Len(df) |-> RAbs(df[i])])

\* I + H + R + D of every day of one trajectory
TotalCases(sl) ==
    [i \in 1 .. Len(sl) |-> RAdd(RAdd(RAdd(sl[i].I, sl[i].H), sl[i].R), sl[i].D)]

\* a trajectory of fractions times the population N
Scaled(sl, N) ==
    [i \in 1 .. Len(sl) |->
        [c \in DOMAIN sl[i] |-> RMul(sl[i][c], FromInt(N))]]

\* np.sum( [f(sol) for sol in sol_per_state], axis=0 ) with f = TotalCases
RECURSIVE CasesAggregation(_)
CasesAggregation(sol_per_state) ==
    IF Len(sol_per_state) = 1 THEN TotalCases(Head(sol_per_state))
    ELSE LET hd == TotalCases(Head(sol_per_state))
             tl == CasesAggregation(Tail(sol_per_state))
         IN  [i \in 1 .. Len(hd) |-> RAdd(hd[i], tl[i])]

-----------------------------------------------------------------------------
(* Calibration of r.                                                       *)

\* the script's globals read by solve_national (kappa0 is its argument), as
\* small rationals in place of the script's estimates
ScriptParams ==
    [beta |-> Q(1, 2), k_avg |-> One, eta |-> Q(1, 2), alpha |-> One,
     gammaI |-> Q(1, 2), muI |-> Zero, nu |-> Q(1, 4),
     gammaH |-> Q(1, 2), muH |-> Q(1, 4),
     kappa0 |-> Zero, sigma |-> FromInt(2), tc |-> 1]

\* the script's n_days: the projection is longer than the observed window
NDays == MaxLen + 1

\* the aggregate total cases for a proportion rr of latent cases
solve_national(regs, rr, kappa0) ==
    CasesAggregation(
        [i \in 1 .. Len(regs) |->
            Scaled(solve(InitialConditions(regs[i], rr), NDays,
                         [ScriptParams EXCEPT !.kappa0 = kappa0]),
                   regs[i].N)])

f(regs, rr) == solve_national(regs, rr, Zero)

\* Python's min of a list: the first of the smallest elements
RECURSIVE PyMinFrom(_, _, _)
PyMinFrom(sq, i, m) ==
    IF i > Len(sq) THEN m
    ELSE PyMinFrom(sq, i + 1, IF RLt(sq[i], m) THEN sq[i] ELSE m)
PyMin(sq) == PyMinFrom(sq, 2, sq[1])

\* mutant: the index of the last occurrence
PyIndex_last(sq, v) == CHOOSE i \in 1 .. Len(sq) :
    sq[i] = v /\ \A j \in (i + 1) .. Len(sq) : sq[j] # v

\* list.index: the index of the first occurrence (counted from 1 here)
PyIndex(sq, v) == CHOOSE i \in 1 .. Len(sq) :
    sq[i] = v /\ \A j \in 1 .. (i - 1) : sq[j] # v

r_min(rs, maes) == rs[PyIndex(maes, PyMin(maes))]

-----------------------------------------------------------------------------
(* A call of MAE on an observed series x and a projection y.               *)

RECURSIVE SeqsUpTo(_, _)
SeqsUpTo(S, n) ==
    IF n = 0 THEN {<<>>}
    ELSE LET shorter == SeqsUpTo(S, n - 1)
         IN  shorter \cup {Append(sq, e) : sq \in {q \in shorter : Len(q) = n - 1}, e \in S}

Counts == {FromInt(0), FromInt(1), FromInt(3)}

InitMAE ==
    /\ mx \in SeqsUpTo(Counts, MaxLen)
    /\ my \in SeqsUpTo(Counts \cup {Q(3, 2)}, MaxLen)
    /\ mres = NoResult
    /\ IdleSolve
    /\ IdleCal

CallMAE ==
    /\ mres = NoResult
    /\ mres' = MAE(mx, my)
    /\ UNCHANGED <<mx, my, solveVars, calVars>>

NextMAE == CallMAE

SpecMAE == InitMAE /\ [][NextMAE]_vars

-----------------------------------------------------------------------------
(* The grid search of the script: cross_validation, then r_min.            *)

Candidates == {Zero, FromInt(2), FromInt(3)}
Observed == {FromInt(2), FromInt(3)}
RegionLists ==
    { <<[N |-> 16, confirmed |-> 2, deaths |-> 0, recovered |-> 0]>>,
      <<[N |-> 8, confirmed |-> 1, deaths |-> 0, recovered |-> 0],
        [N |-> 8, confirmed |-> 2, deaths |-> 0, recovered |-> 1]>> }

InitCal ==
    /\ r_range \in SeqsUpTo(Candidates, MaxCand) \ {<<>>}
    /\ data \in SeqsUpTo(Observed, MaxLen) \ {<<>>}
    /\ regions \in RegionLists
    /\ mae_range = <<>>
    /\ cvi = 0
    /\ evals = <<>>
    /\ r = "none"
    /\ cpc = "cross_validation"
    /\ IdleSolve
    /\ IdleMAE

\* one element of the list comprehension of cross_validation
CrossValidationStep ==
    /\ cpc = "cross_validation"
    /\ cvi < Len(r_range)
    /\ LET cand == r_range[cvi + 1]
           mae  == MAE(data, f(regions, cand))
       IN  IF mae = ValueError
           THEN /\ cpc' = "ValueError"
                /\ UNCHANGED <<mae_range, cvi, evals>>
           ELSE /\ mae_range' = Append(mae_range, mae)
                /\ evals' = Append(evals, cand)
                /\ cvi' = cvi + 1
                /\ cpc' = cpc
    /\ UNCHANGED <<r_range, data, regions, r, solveVars, maeVars>>

\* the list is complete: r = r_min(r_range, mae_range)
TakeBestFit ==
    /\ cpc = "cross_validation"
    /\ cvi = Len(r_range)
    /\ r' = r_min(r_range, mae_range)
    /\ cpc' = "done"
    /\ UNCHANGED <<r_range, data, regions, mae_range, cvi, evals, solveVars, maeVars>>

NextCal == CrossValidationStep \/ TakeBestFit

SpecCal == InitCal /\ [][NextCal]_vars

-----------------------------------------------------------------------------
(* Vocabulary of the properties.                                           *)

\* the recorded row of day dd (sol[dd,:] of the program)
Row(dd) == sol[dd + 1]
Recd(dd) == dd >= 0 /\ dd < Len(sol)

\* the sum of the eight compartments of a state
Total(x) ==
    RAdd(RAdd(RAdd(RAdd(RAdd(RAdd(RAdd(x.S, x.E), x.CH), x.A), x.I), x.H), x.R), x.D)

NonNegative(x) ==
    /\ RLeq(Zero, x.S) /\ RLeq(Zero, x.E) /\ RLeq(Zero, x.CH) /\ RLeq(Zero, x.A)
    /\ RLeq(Zero, x.I) /\ RLeq(Zero, x.H) /\ RLeq(Zero, x.R) /\ RLeq(Zero, x.D)

\* a valid probability model: rates in [0,1], outflow sums at most 1
ValidParams(p) ==
    /\ InRange(p.beta) /\ InRange(p.eta) /\ InRange(p.alpha)
    /\ InRange(p.gammaI) /\ InRange(p.muI) /\ InRange(p.nu)
    /\ InRange(p.gammaH) /\ InRange(p.muH) /\ InRange(p.kappa0)
    /\ RLeq(RAdd(RAdd(p.gammaI, p.muI), p.nu), One)
    /\ RLeq(RAdd(p.gammaH, p.muH), One)

InsideHorizon == params.tc >= 0 /\ params.tc < n_steps

\* the pair the program freezes at day tc, read from the recorded row of tc
CapturedS == Row(params.tc).S
CapturedCH == Pow(RAdd(Row(params.tc).S, Row(params.tc).R), params.sigma)
Injection == RMul(RMul(CapturedS, params.kappa0), CapturedCH)

-----------------------------------------------------------------------------
(* C1. Conservation: with valid parameters and an initial state that sums  *)
(* to 1 with CH = 0, the eight compartments of every recorded day sum to   *)
(* 1, whatever the intervention day (inside the horizon, outside it, the   *)
(* never sentinel), also on day tc+1 and on every later day.               *)
Conservation ==
    (ValidParams(params) /\ Total(x0) = One /\ x0.CH = Zero)
        => \A dd \in 0 .. Len(sol) - 1 : Total(Row(dd)) = One

\* a run with an effective confinement has recorded two days after tc+1
ConservationWitness ==
    /\ ValidParams(params) /\ InsideHorizon
    /\ Recd(params.tc + 3)
    /\ RLt(Zero, Row(params.tc + 3).CH)
    /\ RLt(Row(params.tc + 1).S, Row(params.tc).S)
    /\ RLt(Zero, Row(params.tc + 3).E)
    /\ Total(Row(params.tc + 3)) = One

-----------------------------------------------------------------------------
\* the frozen pair and the result of the latest call of the transition function
LastCall == calls[Len(calls)]
LastProduct == RMul(RMul(LastCall.S_tc, params.kappa0), LastCall.CH_tc)

(* C2 as stated. Single injection: the step returns CH(t+1) =               *)
(* S_tc*kappa0*CH_tc only for the day t = tc and CH(t+1) = 0 for every     *)
(* other day, before and after tc.                                         *)
SingleInjection ==
    (ValidParams(params) /\ Len(calls) > 0)
        => xt.CH = (IF LastCall.t = params.tc THEN LastProduct ELSE Zero)

(* C2 amended. The step returns CH(t+1) = S_tc*kappa0*CH_tc for every day  *)
(* t >= tc and 0 for every day t < tc; after an intervention day inside    *)
(* the horizon every recorded CH is the one value S(tc)*kappa0*CH_tc:      *)
(* carried over, neither accumulated nor reset.                            *)
HeldInjection ==
    /\ Len(calls) > 0
        => xt.CH = (IF LastCall.t >= params.tc THEN LastProduct ELSE Zero)
    /\ \A dd \in 0 .. Len(sol) - 1 :
        Row(dd).CH = (IF InsideHorizon /\ dd > params.tc THEN Injection ELSE Zero)

\* a nonzero CH is recorded two days after tc, equal to the value of tc+1
HeldInjectionWitness ==
    /\ ValidParams(params) /\ InsideHorizon
    /\ Recd(params.tc + 2)
    /\ RLt(Zero, Row(params.tc + 2).CH)
    /\ Row(params.tc + 2).CH = Row(params.tc + 1).CH
    /\ LastCall.t > params.tc

-----------------------------------------------------------------------------
(* C3. Freeze exactly once: the frozen pair starts at (0,0) and is         *)
(* assigned at most once, in the iteration of day tc, from the state       *)
(* before that day's step: S_tc = S, CH_tc = (S+R)^sigma; every call for a *)
(* day < tc receives (0,0) and every call for a day >= tc receives the     *)
(* values captured at tc.                                                  *)
FreezeOnce ==
    /\ nfreeze <= 1
    /\ nfreeze = (IF InsideHorizon /\ t > params.tc THEN 1 ELSE 0)
    /\ \A j \in 1 .. Len(calls) :
        /\ calls[j].t = j - 1
        /\ <<calls[j].S_tc, calls[j].CH_tc>> =
              (IF InsideHorizon /\ j - 1 >= params.tc
               THEN <<CapturedS, CapturedCH>> ELSE <<Zero, Zero>>)
    /\ <<S_tc, CH_tc>> =
          (IF InsideHorizon /\ t > params.tc
           THEN <<CapturedS, CapturedCH>> ELSE <<Zero, Zero>>)

\* two calls after the capture, with S changed since the capture
FreezeOnceWitness ==
    /\ InsideHorizon /\ params.tc >= 1
    /\ Len(calls) >= params.tc + 3
    /\ nfreeze = 1
    /\ RLt(Zero, S_tc) /\ RLt(Zero, CH_tc)
    /\ RLt(xt.S, S_tc)
    /\ RLt(Zero, xt.S)

-----------------------------------------------------------------------------
(* The solver C4 compares with: no freeze logic at all, the frozen scalars *)
(* held at 0 and the contact rate k_avg on every day.                      *)
NoFreezeStep(x, p) ==
    LET P0 == RSub(One, Pow(RSub(One, p.beta), RMul(p.k_avg, RAdd(x.I, x.A))))
    IN  [S  |-> RMul(x.S, RSub(One, P0)),
         E  |-> RAdd(RMul(x.S, P0), RMul(RSub(One, p.eta), x.E)),
         CH |-> Zero,
         A  |-> RAdd(RMul(p.eta, x.E), RMul(RSub(One, p.alpha), x.A)),
         I  |-> RAdd(RMul(p.alpha, x.A),
                     RSub(x.I, RMul(RAdd(RAdd(p.gammaI, p.muI), p.nu), x.I))),
         H  |-> RAdd(RMul(p.nu, x.I), RSub(x.H, RMul(RAdd(p.gammaH, p.muH), x.H))),
         R  |-> RAdd(x.R, RAdd(RMul(p.gammaI, x.I), RMul(p.gammaH, x.H))),
         D  |-> RAdd(x.D, RAdd(RMul(p.muI, x.I), RMul(p.muH, x.H)))]

RECURSIVE NoFreezeState(_, _, _)
NoFreezeState(x, p, dd) ==
    IF dd = 0 THEN x ELSE NoFreezeStep(NoFreezeState(x, p, dd - 1), p)

SameAsNoFreeze == \A dd \in 0 .. Len(sol) - 1 : Row(dd) = NoFreezeState(x0, params, dd)

(* C4 as stated. With tc the never sentinel or any day outside             *)
(* 0..horizon-1, and with kappa0 = 0 and any tc, the trajectory is day by  *)
(* day the trajectory of the solver without freeze logic.                  *)
NoInterventionEquivalence ==
    (ValidParams(params) /\ (~InsideHorizon \/ params.kappa0 = Zero)) => SameAsNoFreeze

(* C4 amended. With tc the never sentinel or any day at or after the       *)
(* horizon, and with kappa0 = 0 and any tc, the trajectory is day by day   *)
(* the trajectory of the solver without freeze logic.                      *)
NoInterventionEquivalenceLate ==
    (params.tc >= n_steps \/ params.kappa0 = Zero) => SameAsNoFreeze

\* kappa0 = 0 with a capture inside the horizon, two days after it, infection going on
NoInterventionEquivalenceWitness ==
    /\ params.kappa0 = Zero /\ InsideHorizon /\ ValidParams(params)
    /\ Recd(params.tc + 2)
    /\ RLt(Zero, S_tc) /\ RLt(Zero, CH_tc)
    /\ RLt(Row(params.tc + 2).S, Row(params.tc + 1).S)
    /\ RLt(Zero, Row(params.tc + 2).S)
    /\ SameAsNoFreeze

-----------------------------------------------------------------------------
(* C5 as stated. In a run with tc the never sentinel or with kappa0 = 0    *)
(* the frozen scalars S_tc and CH_tc are 0 at every iteration.             *)
FrozenStayZero ==
    (params.tc = Never \/ params.kappa0 = Zero)
        => (S_tc = Zero /\ CH_tc = Zero
            /\ \A j \in 1 .. Len(calls) : calls[j].S_tc = Zero /\ calls[j].CH_tc = Zero)

(* C5 amended. In a run with tc the never sentinel (or any day outside the *)
(* horizon) the frozen scalars are 0 at every iteration; with kappa0 = 0   *)
(* and tc inside the horizon they are captured at day tc as in any other   *)
(* run, S_tc = S(tc) and CH_tc = (S(tc)+R(tc))^sigma, and the recorded CH  *)
(* stays 0.                                                                *)
FrozenStayZeroNever ==
    /\ ~InsideHorizon
        => (S_tc = Zero /\ CH_tc = Zero
            /\ \A j \in 1 .. Len(calls) : calls[j].S_tc = Zero /\ calls[j].CH_tc = Zero)
    /\ (params.kappa0 = Zero /\ InsideHorizon /\ t > params.tc)
        => (S_tc = CapturedS /\ CH_tc = CapturedCH
            /\ \A dd \in 0 .. Len(sol) - 1 : Row(dd).CH = Zero)

\* a whole run with tc before day 0 and the scalars still 0
FrozenStayZeroNeverWitness ==
    /\ params.tc < 0 /\ pc = "done" /\ n_steps = MaxSteps
    /\ S_tc = Zero /\ CH_tc = Zero
    /\ RLt(Zero, xt.S)

-----------------------------------------------------------------------------
\* the infection probability of the recorded day dd
RowP(dd) ==
    P(Row(dd).I, Row(dd).A, dd, params.beta, params.k_avg, params.kappa0,
      params.sigma, params.tc)
NotInfected(dd) == RMul(Row(dd).S, RSub(One, RowP(dd)))

(* C6. Record before advance: row 0 is the initial state; for tc inside    *)
(* the horizon with kappa0 > 0 and S(tc) > 0 the recorded CH is 0 at every *)
(* index <= tc, the first index with CH > 0 is tc+1 (when the horizon      *)
(* holds it), the recorded S at tc+1 is the not-infected susceptible mass  *)
(* of day tc times (1 - kappa0*CH_tc), and at every other index the        *)
(* recorded S is the not-infected mass of the day before, unreduced.       *)
RecordBeforeAdvance ==
    /\ Len(sol) >= 1 => Row(0) = x0
    /\ (InsideHorizon /\ RLt(Zero, params.kappa0)
          /\ Recd(params.tc) /\ RLt(Zero, Row(params.tc).S))
        => /\ \A dd \in 0 .. Len(sol) - 1 : dd <= params.tc => Row(dd).CH = Zero
           /\ Recd(params.tc + 1) => RLt(Zero, Row(params.tc + 1).CH)
           /\ \A dd \in 0 .. Len(sol) - 2 :
                Row(dd + 1).S =
                   (IF dd = params.tc
                    THEN RMul(NotInfected(dd),
                              RSub(One, RMul(params.kappa0, CapturedCH)))
                    ELSE NotInfected(dd))

\* the confinement subtraction is visible at tc+1 and a later day is recorded
RecordBeforeAdvanceWitness ==
    /\ ValidParams(params) /\ InsideHorizon /\ params.tc >= 1
    /\ RLt(Zero, params.kappa0) /\ RLt(params.kappa0, One)
    /\ Recd(params.tc + 2)
    /\ RLt(Zero, Row(params.tc + 1).CH)
    /\ RLt(Zero, Row(params.tc + 1).S)
    /\ RLt(Row(params.tc + 1).S, NotInfected(params.tc))
    /\ RLt(NotInfected(params.tc), Row(params.tc).S)

-----------------------------------------------------------------------------
(* C7. Monotonicity: from a non-negative initial state and with valid      *)
(* parameters, R and D do not decrease from one recorded day to the next,  *)
(* before, at and after the intervention day.                              *)
Monotonicity ==
    (ValidParams(params) /\ NonNegative(x0))
        => \A dd \in 0 .. Len(sol) - 2 :
              /\ RLeq(Row(dd).R, Row(dd + 1).R)
              /\ RLeq(Row(dd).D, Row(dd + 1).D)

\* R and D grow strictly before, at and after an effective intervention
MonotonicityWitness ==
    /\ ValidParams(params) /\ NonNegative(x0)
    /\ InsideHorizon /\ params.tc >= 1 /\ RLt(Zero, params.kappa0)
    /\ Recd(params.tc + 2)
    /\ \A dd \in 0 .. params.tc + 1 :
          RLt(Row(dd).R, Row(dd + 1).R) /\ RLt(Row(dd).D, Row(dd + 1).D)

-----------------------------------------------------------------------------
(* C8. Configuration validation: with a rate outside [0,1] or an outflow   *)
(* sum above 1 the run ends in a configuration error and produces no       *)
(* trajectory; no state is advanced with an invalid probability model.     *)
ConfigurationValidated ==
    ~ValidParams(params) => (sol = <<>> /\ calls = <<>> /\ xt = x0 /\ pc # "done")

-----------------------------------------------------------------------------
\* the candidates whose error is the minimum of mae_range
IsMinimum(i) == \A j \in 1 .. Len(mae_range) : RLeq(mae_range[i], mae_range[j])

(* C9. Calibration argmin: for a non-empty candidate list, every candidate *)
(* is evaluated in the order of the list and r_min returns the candidate   *)
(* at the smallest index whose error is the minimum of mae_range.          *)
CalibrationArgmin ==
    cpc = "done"
        => /\ evals = r_range
           /\ Len(mae_range) = Len(r_range)
           /\ \E i \in 1 .. Len(r_range) :
                /\ r = r_range[i]
                /\ IsMinimum(i)
                /\ \A j \in 1 .. (i - 1) : RLt(mae_range[i], mae_range[j])

\* the minimum is shared by two different candidates, after a worse first one
CalibrationArgminWitness ==
    /\ cpc = "done"
    /\ \E i, j \in 1 .. Len(r_range) :
          /\ 1 < i /\ i < j
          /\ IsMinimum(i) /\ IsMinimum(j)
          /\ r_range[i] # r_range[j]
          /\ r = r_range[i]
          /\ ~IsMinimum(1)

-----------------------------------------------------------------------------
\* the mean of |x[i] - y[i]| over the first min(len(x), len(y)) positions
FrontMean(x, y) ==
    Mean([i \in 1 .. MinInt(Len(x), Len(y)) |-> RAbs(RSub(x[i], y[i]))])

(* C10. MAE over the overlapping front window: for x and y of any lengths  *)
(* MAE(x, y) is the mean of |x[i] - y[i]| over the first                   *)
(* min(len(x), len(y)) positions, also when x is longer than y.            *)
MAEFrontWindow ==
    (mres # NoResult /\ Len(mx) >= 1 /\ Len(my) >= 1) => mres = FrontMean(mx, my)

-----------------------------------------------------------------------------
\* the containment strengths of the scenarios a run is compared with
Scenarios == {Zero, Q(1, 2), One}

\* the first n rows a run of the same inputs with containment strength k2 records
ScenarioRun(k2, n) == solve(x0, n, [params EXCEPT !.kappa0 = k2])

\* the number of recorded rows with an index in 0..tc
RowsUntilTc == IF params.tc < 0 THEN 0 ELSE MinInt(Len(sol), params.tc + 1)

(* C11. Scenarios agree up to the intervention day: two runs of solve that *)
(* share the initial state, the horizon, tc and every constant and differ  *)
(* only in kappa0 record the same rows at every index 0..tc; kappa0 shows  *)
(* in the recorded rows from index tc+1 on only.                           *)
ScenariosAgreeUntilTc ==
    \A k2 \in Scenarios \ {params.kappa0} :
        LET other == ScenarioRun(k2, RowsUntilTc)
        IN  \A dd \in 0 .. Len(sol) - 1 : dd <= params.tc => Row(dd) = other[dd + 1]

\* the rows agree up to a day tc >= 1 the epidemic has moved by, and part at tc+1
ScenariosAgreeUntilTcWitness ==
    /\ ValidParams(params) /\ InsideHorizon /\ params.tc >= 1
    /\ Len(sol) = params.tc + 2
    /\ Row(params.tc) # Row(0)
    /\ \E k2 \in Scenarios \ {params.kappa0} :
          LET other == ScenarioRun(k2, params.tc + 2)
          IN  /\ other[params.tc + 1] = Row(params.tc)
              /\ other[params.tc + 2] # Row(params.tc + 1)

====
